---- MODULE Spec2Model ----
(***************************************************************************)
(* rocket-response: three enums deriving Responder (src/src/lib.rs).       *)
(*                                                                         *)
(* A route handler builds one enum value per request; the framework calls  *)
(* the derived respond_to once, which forwards to the Responder of the     *)
(* active variant's field.  The model has a small pool of concurrent       *)
(* requests, each going  idle -> constructed -> rendered -> idle.          *)
(***************************************************************************)
EXTENDS Integers, Sequences, FiniteSets, TLC

(* ------------------------------------------------------------------ *)
(* Bounds                                                              *)
(* ------------------------------------------------------------------ *)
MaxId == 2          \* route ids 0..MaxId
MaxHandles == 2     \* file descriptors 1..MaxHandles

Reqs == {1, 2}      \* requests served concurrently
Ids == 0..MaxId
Handles == 1..MaxHandles

Absent == "<absent>"     \* a header that is not set
NoValue == [tag |-> "<none>"]

(* ------------------------------------------------------------------ *)
(* The enum declarations: variant -> field type.                       *)
(* A type is [k |-> kind, a |-> argument]; a is "-" for a type without  *)
(* a parameter, "str" for &'static str, "T"/"U" for the enum's own      *)
(* parameters.                                                         *)
(* ------------------------------------------------------------------ *)
Ty(k, a) == [k |-> k, a |-> a]

\* cargo features the cfg attributes test
Features == {"json", "msgpack", "templates"}

\* variants behind #[cfg(feature = ...)]
Gate(tag) ==
  CASE tag = "SerdeJson"    -> "json"
    [] tag = "SerdeValue"   -> "json"
    [] tag = "SerdeMsgPack" -> "msgpack"
    [] tag = "Template"     -> "templates"
    [] OTHER                -> "always"

RocketResponse ==
  [ Accepted     |-> Ty("Accepted", "str"),
    BadRequest   |-> Ty("BadRequest", "str"),
    Conflict     |-> Ty("Conflict", "str"),
    Created      |-> Ty("Created", "str"),
    Css          |-> Ty("RawCss", "str"),
    File         |-> Ty("File", "-"),
    Flash        |-> Ty("Flash", "str"),
    Forbidden    |-> Ty("Forbidden", "str"),
    Html         |-> Ty("RawHtml", "str"),
    JavaScript   |-> Ty("RawJavaScript", "str"),
    Json         |-> Ty("RawJson", "str"),
    MsgPack      |-> Ty("RawMsgPack", "str"),
    NamedFiled   |-> Ty("NamedFile", "-"),
    NotFound     |-> Ty("NotFound", "str"),
    NoContent    |-> Ty("NoContent", "-"),
    Plain        |-> Ty("RawText", "str"),
    Redirect     |-> Ty("Redirect", "-"),
    SerdeJson    |-> Ty("Json", "str"),
    SerdeMsgPack |-> Ty("MsgPack", "str"),
    SerdeValue   |-> Ty("Value", "-"),
    StaticSlice  |-> Ty("slice", "-"),
    StaticStr    |-> Ty("str", "-"),
    String       |-> Ty("String", "-"),
    Status       |-> Ty("Status", "-"),
    Template     |-> Ty("Template", "-"),
    TokioFile    |-> Ty("TokioFile", "-"),
    Unauthorized |-> Ty("Unauthorized", "str"),
    Vec          |-> Ty("Vec", "-"),
    Xml          |-> Ty("RawXml", "str") ]

\* faulty alternative: Css declared with the Html wrapper
RocketResponseGeneric_CssAsHtml ==
  [ Accepted     |-> Ty("Accepted", "T"),
    BadRequest   |-> Ty("BadRequest", "T"),
    Conflict     |-> Ty("Conflict", "T"),
    Created      |-> Ty("Created", "T"),
    Css          |-> Ty("RawHtml", "T"),
    File         |-> Ty("File", "-"),
    Flash        |-> Ty("Flash", "T"),
    Forbidden    |-> Ty("Forbidden", "T"),
    Html         |-> Ty("RawHtml", "T"),
    JavaScript   |-> Ty("RawJavaScript", "T"),
    Json         |-> Ty("RawJson", "T"),
    MsgPack      |-> Ty("RawMsgPack", "T"),
    NamedFiled   |-> Ty("NamedFile", "-"),
    NotFound     |-> Ty("NotFound", "T"),
    NoContent    |-> Ty("NoContent", "-"),
    Plain        |-> Ty("RawText", "T"),
    Redirect     |-> Ty("Redirect", "-"),
    SerdeJson    |-> Ty("Json", "T"),
    SerdeMsgPack |-> Ty("MsgPack", "T"),
    SerdeValue   |-> Ty("Value", "-"),
    StaticSlice  |-> Ty("slice", "-"),
    StaticStr    |-> Ty("str", "-"),
    String       |-> Ty("String", "-"),
    Status       |-> Ty("Status", "-"),
    Template     |-> Ty("Template", "-"),
    TokioFile    |-> Ty("TokioFile", "-"),
    Unauthorized |-> Ty("Unauthorized", "T"),
    Vec          |-> Ty("Vec", "-"),
    Xml          |-> Ty("RawXml", "T") ]

RocketResponseGeneric ==
  [ Accepted     |-> Ty("Accepted", "T"),
    BadRequest   |-> Ty("BadRequest", "T"),
    Conflict     |-> Ty("Conflict", "T"),
    Created      |-> Ty("Created", "T"),
    Css          |-> Ty("RawCss", "T"),
    File         |-> Ty("File", "-"),
    Flash        |-> Ty("Flash", "T"),
    Forbidden    |-> Ty("Forbidden", "T"),
    Html         |-> Ty("RawHtml", "T"),
    JavaScript   |-> Ty("RawJavaScript", "T"),
    Json         |-> Ty("RawJson", "T"),
    MsgPack      |-> Ty("RawMsgPack", "T"),
    NamedFiled   |-> Ty("NamedFile", "-"),
    NotFound     |-> Ty("NotFound", "T"),
    NoContent    |-> Ty("NoContent", "-"),
    Plain        |-> Ty("RawText", "T"),
    Redirect     |-> Ty("Redirect", "-"),
    SerdeJson    |-> Ty("Json", "T"),
    SerdeMsgPack |-> Ty("MsgPack", "T"),
    SerdeValue   |-> Ty("Value", "-"),
    StaticSlice  |-> Ty("slice", "-"),
    StaticStr    |-> Ty("str", "-"),
    String       |-> Ty("String", "-"),
    Status       |-> Ty("Status", "-"),
    Template     |-> Ty("Template", "-"),
    TokioFile    |-> Ty("TokioFile", "-"),
    Unauthorized |-> Ty("Unauthorized", "T"),
    Vec          |-> Ty("Vec", "-"),
    Xml          |-> Ty("RawXml", "T") ]

\* faulty alternative: NoContent declared with NotFound's payload type
RocketResponseGeneric2_NoContentAsNotFound ==
  [ Accepted     |-> Ty("Accepted", "T"),
    BadRequest   |-> Ty("BadRequest", "T"),
    Conflict     |-> Ty("Conflict", "T"),
    Created      |-> Ty("Created", "T"),
    Css          |-> Ty("RawCss", "T"),
    File         |-> Ty("File", "-"),
    Flash        |-> Ty("Flash", "U"),
    Forbidden    |-> Ty("Forbidden", "T"),
    Html         |-> Ty("RawHtml", "T"),
    JavaScript   |-> Ty("RawJavaScript", "T"),
    Json         |-> Ty("RawJson", "T"),
    MsgPack      |-> Ty("RawMsgPack", "T"),
    NamedFiled   |-> Ty("NamedFile", "-"),
    NotFound     |-> Ty("NotFound", "T"),
    NoContent    |-> Ty("NotFound", "T"),
    Plain        |-> Ty("RawText", "T"),
    Redirect     |-> Ty("Redirect", "-"),
    SerdeJson    |-> Ty("Json", "T"),
    SerdeMsgPack |-> Ty("MsgPack", "T"),
    SerdeValue   |-> Ty("Value", "-"),
    StaticSlice  |-> Ty("slice", "-"),
    StaticStr    |-> Ty("str", "-"),
    String       |-> Ty("String", "-"),
    Status       |-> Ty("Status", "-"),
    Template     |-> Ty("Template", "-"),
    TokioFile    |-> Ty("TokioFile", "-"),
    Unauthorized |-> Ty("Unauthorized", "T"),
    Vec          |-> Ty("Vec", "-"),
    Xml          |-> Ty("RawXml", "T") ]

\* faulty alternative: Flash typed by T, as in RocketResponseGeneric
RocketResponseGeneric2_FlashOfT ==
  [ Accepted     |-> Ty("Accepted", "T"),
    BadRequest   |-> Ty("BadRequest", "T"),
    Conflict     |-> Ty("Conflict", "T"),
    Created      |-> Ty("Created", "T"),
    Css          |-> Ty("RawCss", "T"),
    File         |-> Ty("File", "-"),
    Flash        |-> Ty("Flash", "T"),
    Forbidden    |-> Ty("Forbidden", "T"),
    Html         |-> Ty("RawHtml", "T"),
    JavaScript   |-> Ty("RawJavaScript", "T"),
    Json         |-> Ty("RawJson", "T"),
    MsgPack      |-> Ty("RawMsgPack", "T"),
    NamedFiled   |-> Ty("NamedFile", "-"),
    NotFound     |-> Ty("NotFound", "T"),
    NoContent    |-> Ty("NoContent", "-"),
    Plain        |-> Ty("RawText", "T"),
    Redirect     |-> Ty("Redirect", "-"),
    SerdeJson    |-> Ty("Json", "T"),
    SerdeMsgPack |-> Ty("MsgPack", "T"),
    SerdeValue   |-> Ty("Value", "-"),
    StaticSlice  |-> Ty("slice", "-"),
    StaticStr    |-> Ty("str", "-"),
    String       |-> Ty("String", "-"),
    Status       |-> Ty("Status", "-"),
    Template     |-> Ty("Template", "-"),
    TokioFile    |-> Ty("TokioFile", "-"),
    Unauthorized |-> Ty("Unauthorized", "T"),
    Vec          |-> Ty("Vec", "-"),
    Xml          |-> Ty("RawXml", "T") ]

RocketResponseGeneric2 ==
  [ Accepted     |-> Ty("Accepted", "T"),
    BadRequest   |-> Ty("BadRequest", "T"),
    Conflict     |-> Ty("Conflict", "T"),
    Created      |-> Ty("Created", "T"),
    Css          |-> Ty("RawCss", "T"),
    File         |-> Ty("File", "-"),
    Flash        |-> Ty("Flash", "U"),
    Forbidden    |-> Ty("Forbidden", "T"),
    Html         |-> Ty("RawHtml", "T"),
    JavaScript   |-> Ty("RawJavaScript", "T"),
    Json         |-> Ty("RawJson", "T"),
    MsgPack      |-> Ty("RawMsgPack", "T"),
    NamedFiled   |-> Ty("NamedFile", "-"),
    NotFound     |-> Ty("NotFound", "T"),
    NoContent    |-> Ty("NoContent", "-"),
    Plain        |-> Ty("RawText", "T"),
    Redirect     |-> Ty("Redirect", "-"),
    SerdeJson    |-> Ty("Json", "T"),
    SerdeMsgPack |-> Ty("MsgPack", "T"),
    SerdeValue   |-> Ty("Value", "-"),
    StaticSlice  |-> Ty("slice", "-"),
    StaticStr    |-> Ty("str", "-"),
    String       |-> Ty("String", "-"),
    Status       |-> Ty("Status", "-"),
    Template     |-> Ty("Template", "-"),
    TokioFile    |-> Ty("TokioFile", "-"),
    Unauthorized |-> Ty("Unauthorized", "T"),
    Vec          |-> Ty("Vec", "-"),
    Xml          |-> Ty("RawXml", "T") ]

Shapes == {"RocketResponse", "RocketResponseGeneric", "RocketResponseGeneric2"}

EnumDecl(shape) ==
  CASE shape = "RocketResponse"         -> RocketResponse
    [] shape = "RocketResponseGeneric"  -> RocketResponseGeneric
    [] shape = "RocketResponseGeneric2" -> RocketResponseGeneric2

\* the variants that exist in the build
VariantNames(shape) ==
  {tag \in DOMAIN EnumDecl(shape) : Gate(tag) \in Features \cup {"always"}}

\* the declared field type of a variant
FieldType(shape, tag) == EnumDecl(shape)[tag]

\* the declared field type with the enum's parameters instantiated
Inst(ty, T, U) ==
  Ty(ty.k, CASE ty.a = "T" -> T [] ty.a = "U" -> U [] OTHER -> ty.a)

(* ------------------------------------------------------------------ *)
(* Responses, as the framework's Response / Err(Status) result.        *)
(* ------------------------------------------------------------------ *)
EmptyBody == [kind |-> "empty", s |-> "", h |-> 0]
Sized(s) == [kind |-> "sized", s |-> s, h |-> 0]
FileBody(h) == [kind |-> "file", s |-> "", h |-> h]
NoCookie == [name |-> Absent, value |-> ""]

\* Response::build(): status Ok, no header, no body
Build ==
  [ok |-> TRUE, status |-> 200, ct |-> Absent, location |-> Absent,
   etag |-> Absent, body |-> EmptyBody, cookie |-> NoCookie]

\* Err(Status): handed to the framework's catchers
Err(code) == [ok |-> FALSE, status |-> code, cookie |-> NoCookie]

\* no result yet
NoResponse == Err(0)

\* Builder::merge(other): what other sets replaces what the builder has
Merge(b, o) ==
  [ok |-> TRUE, status |-> o.status,
   ct |-> IF o.ct # Absent THEN o.ct ELSE b.ct,
   location |-> IF o.location # Absent THEN o.location ELSE b.location,
   etag |-> IF o.etag # Absent THEN o.etag ELSE b.etag,
   body |-> IF o.body.kind # "empty" THEN o.body ELSE b.body,
   cookie |-> o.cookie]

(* ------------------------------------------------------------------ *)
(* Payload constructors used by the routes.                            *)
(* ------------------------------------------------------------------ *)
Str(s) == [ty |-> "str", s |-> s]
OptStr(some, s) == [ty |-> "OptStr", some |-> some, s |-> s]

\* targets that parse as a URI reference
ValidUri(target) == target \in {"/", "/admin"}

\* Redirect::to(uri) = Redirect(Status::SeeOther, uri.try_into().ok())
RedirectTo(target) ==
  [ty |-> "Redirect", code |-> 303, valid |-> ValidUri(target), s |-> target]

\* status::X(Option<R>)
OptWrap(kind, some, inner) == [ty |-> kind, some |-> some, inner |-> inner]

\* content::RawX(R), status::NotFound(R)
Wrap(kind, inner) == [ty |-> kind, inner |-> inner]

\* Flash::new(inner, kind, message)
FlashNew(inner, kind, msg) ==
  [ty |-> "Flash", kind |-> kind, msg |-> msg, inner |-> inner]

\* Flash::error(inner, message)
FlashError(inner, msg) == FlashNew(inner, "error", msg)

\* format!("Invalid id {}", id)
FormatInvalidId(id) == "Invalid id " \o ToString(id)

\* Flash::cookie(): "{kind.len()}:{kind}{message}" under the name _flash
FlashCookie(p) ==
  [name |-> "_flash", value |-> ToString(Len(p.kind)) \o ":" \o p.kind \o p.msg]

(* ------------------------------------------------------------------ *)
(* The framework's Responder implementations of the wrapped types.     *)
(* ------------------------------------------------------------------ *)
\* ContentType::from_extension
FromExtension(ext) ==
  CASE ext = "html" -> "HTML"
    [] ext = "css"  -> "CSS"
    [] OTHER        -> Absent

\* serde_json::to_string of a payload of type T
ToJson(p) ==
  CASE p.ty = "str"    -> "\"" \o p.s \o "\""
    [] p.ty = "OptStr" -> IF p.some THEN "\"" \o p.s \o "\"" ELSE "null"
    [] p.ty = "UserT"  -> "{}"
    [] OTHER           -> "null"

\* whether T's Serialize implementation succeeds on the value
Serializes(p) == IF p.ty = "UserT" THEN p.ser ELSE TRUE

\* Responder for Status
StatusRespond(code) ==
  CASE code >= 400                -> Err(code)
    [] code >= 200 /\ code < 206  -> [Build EXCEPT !.status = code]
    [] code = 100                 -> [Build EXCEPT !.status = code]
    [] OTHER                      -> Err(500)

\* Responders of the types that wrap no other responder
LeafRespond(p) ==
  CASE p.ty = "str"       -> [Build EXCEPT !.ct = "Plain", !.body = Sized(p.s)]
    [] p.ty = "String"    -> [Build EXCEPT !.ct = "Plain", !.body = Sized(p.s)]
    [] p.ty = "slice"     -> [Build EXCEPT !.ct = "Binary", !.body = Sized(p.s)]
    [] p.ty = "Vec"       -> [Build EXCEPT !.ct = "Binary", !.body = Sized(p.s)]
    [] p.ty = "OptStr"    -> IF p.some
                             THEN [Build EXCEPT !.ct = "Plain", !.body = Sized(p.s)]
                             ELSE Err(404)
    [] p.ty = "UserT"     -> IF p.ser
                             THEN [Build EXCEPT !.ct = "JSON", !.body = Sized("{}")]
                             ELSE Err(500)
    [] p.ty = "Redirect"  -> IF p.valid
                             THEN [Build EXCEPT !.status = p.code, !.location = p.s]
                             ELSE Err(500)
    [] p.ty = "NoContent" -> [Build EXCEPT !.status = 204]
    [] p.ty = "Status"    -> StatusRespond(p.code)
    [] p.ty = "File"      -> [Build EXCEPT !.body = FileBody(p.h)]
    [] p.ty = "TokioFile" -> [Build EXCEPT !.body = FileBody(p.h)]
    [] p.ty = "NamedFile" -> [Build EXCEPT !.body = FileBody(p.h),
                                           !.ct = FromExtension(p.ext)]
    [] p.ty = "Value"     -> [Build EXCEPT !.ct = "JSON", !.body = Sized(p.s)]
    [] p.ty = "Template"  -> IF p.found
                             THEN [Build EXCEPT !.ct = "HTML", !.body = Sized(p.s)]
                             ELSE Err(500)

\* status of the status::X wrappers
WrapperStatus(kind) ==
  CASE kind = "Accepted"     -> 202
    [] kind = "BadRequest"   -> 400
    [] kind = "Conflict"     -> 409
    [] kind = "Created"      -> 201
    [] kind = "Forbidden"    -> 403
    [] kind = "NotFound"     -> 404
    [] kind = "Unauthorized" -> 401

\* content type of the content::RawX wrappers
WrapperContentType(kind) ==
  CASE kind = "RawCss"        -> "CSS"
    [] kind = "RawHtml"       -> "HTML"
    [] kind = "RawJavaScript" -> "JavaScript"
    [] kind = "RawJson"       -> "JSON"
    [] kind = "RawMsgPack"    -> "MsgPack"
    [] kind = "RawText"       -> "Plain"
    [] kind = "RawXml"        -> "XML"

OptionStatusKinds == {"Accepted", "BadRequest", "Conflict", "Forbidden", "Unauthorized"}
RawKinds ==
  {"RawCss", "RawHtml", "RawJavaScript", "RawJson", "RawMsgPack", "RawText", "RawXml"}
WrapperKinds ==
  OptionStatusKinds \cup RawKinds \cup {"Created", "NotFound", "Flash", "Json", "MsgPack"}

\* Responder of any payload type of the catalog
Respond(p) ==
  IF p.ty \notin WrapperKinds THEN LeafRespond(p)
  ELSE
    LET in == LeafRespond(p.inner) IN
    CASE p.ty \in OptionStatusKinds ->
           IF ~p.some THEN [Build EXCEPT !.status = WrapperStatus(p.ty)]
           ELSE IF ~in.ok THEN in
           ELSE [Merge(Build, in) EXCEPT !.status = WrapperStatus(p.ty)]
      [] p.ty = "Created" ->
           IF p.some /\ ~in.ok THEN in
           ELSE [(IF p.some THEN Merge(Build, in) ELSE Build) EXCEPT
                   !.etag = IF p.tagged THEN "hash" ELSE @,
                   !.status = WrapperStatus(p.ty),
                   !.location = p.s]
      [] p.ty = "NotFound" ->
           IF ~in.ok THEN in
           ELSE [Merge(Build, in) EXCEPT !.status = WrapperStatus(p.ty)]
      [] p.ty \in RawKinds ->
           IF ~in.ok THEN in
           ELSE [Merge(Build, in) EXCEPT !.ct = WrapperContentType(p.ty)]
      [] p.ty = "Flash" -> [in EXCEPT !.cookie = FlashCookie(p)]
      [] p.ty = "Json" ->
           IF ~Serializes(p.inner) THEN Err(500)
           ELSE [Build EXCEPT !.ct = "JSON", !.body = Sized(ToJson(p.inner))]
      [] p.ty = "MsgPack" ->
           IF ~Serializes(p.inner) THEN Err(500)
           ELSE [Build EXCEPT !.ct = "MsgPack", !.body = Sized(ToJson(p.inner))]

\* faulty alternative: the tokio file is not owned by the payload
PayloadHandles_borrowed(p) ==
  IF p.ty \in {"File", "NamedFile"} THEN {p.h} ELSE {}

\* file descriptors a payload owns
PayloadHandles(p) ==
  IF p.ty \in {"File", "TokioFile", "NamedFile"} THEN {p.h} ELSE {}

\* file descriptors a response's body streams from
ResponseHandles(res) ==
  IF res.ok /\ res.body.kind = "file" THEN {res.body.h} ELSE {}

\* the type of a payload value
TypeOf(p) ==
  IF p.ty \in WrapperKinds
  THEN Ty(p.ty, p.inner.ty)
  ELSE Ty(p.ty, "-")

(* ------------------------------------------------------------------ *)
(* #[derive(Responder)] on the three enums.                            *)
(* ------------------------------------------------------------------ *)
\* faulty alternative: #[response(status = 500)] on the Created variant
ResponseAttr_StatusOnCreated(shape, tag) ==
  [status |-> IF tag = "Created" THEN 500 ELSE 0, ct |-> Absent]

\* #[response(status = .., content_type = ..)] of a variant: none is given
ResponseAttr(shape, tag) == [status |-> 0, ct |-> Absent]

\* faulty alternative: a failing renderer is caught and answered with a bare status response
respond_to_fallback(shape, v) ==
  LET res == Respond(v.payload) IN
  IF res.ok THEN [invoked |-> <<v.tag>>, res |-> res]
  ELSE [invoked |-> <<v.tag, "Status">>, res |-> [Build EXCEPT !.status = res.status]]

\* the derived respond_to: one match arm per variant, each forwarding to the
\* field's Responder with `?`, then applying the variant's #[response] attribute.
\* invoked lists the variants whose field was rendered.
respond_to(shape, v) ==
  LET res == Respond(v.payload)
      attr == ResponseAttr(shape, v.tag)
  IN [invoked |-> <<v.tag>>,
      res |-> IF ~res.ok THEN res
              ELSE [res EXCEPT
                      !.status = IF attr.status # 0 THEN attr.status ELSE @,
                      !.ct = IF attr.ct # Absent THEN attr.ct ELSE @]]

\* faulty alternative: the value outlives its rendering
AfterRespond_kept(v) == v

\* respond_to takes self by value: nothing of the value is left to the caller
AfterRespond(v) == NoValue

(* ------------------------------------------------------------------ *)
(* The routes of the test module.                                      *)
(* ------------------------------------------------------------------ *)
Variant(tag, payload) == [tag |-> tag, payload |-> payload]

\* faulty alternative: the default arm answers with an owned, differently cased string
route_response_default(id) ==
  CASE id = 0 -> [tag |-> "NoContent", payload |-> [ty |-> "NoContent"]]
    [] id = 1 -> [tag |-> "Redirect", payload |-> RedirectTo("/admin")]
    [] OTHER  -> [tag |-> "String", payload |-> [ty |-> "String", s |-> "Hello World"]]

\* faulty alternative: id 1 redirects to /
route_response_root(id) ==
  CASE id = 0 -> [tag |-> "NoContent", payload |-> [ty |-> "NoContent"]]
    [] id = 1 -> [tag |-> "Redirect", payload |-> RedirectTo("/")]
    [] OTHER  -> [tag |-> "StaticStr", payload |-> Str("Hello world")]

route_response(id) ==
  CASE id = 0 -> Variant("NoContent", [ty |-> "NoContent"])
    [] id = 1 -> Variant("Redirect", RedirectTo("/admin"))
    [] OTHER  -> Variant("StaticStr", Str("Hello world"))

\* faulty alternative: Unauthorized(None)
route_response_generic_none(id) ==
  CASE id = 0 -> [tag |-> "NoContent", payload |-> [ty |-> "NoContent"]]
    [] id = 1 -> [tag |-> "Unauthorized",
                  payload |-> OptWrap("Unauthorized", FALSE, Str("admin need authentication"))]
    [] OTHER  -> [tag |-> "Html",
                  payload |-> Wrap("RawHtml", Str("<html><body>Hello world</body></html"))]

route_response_generic(id) ==
  CASE id = 0 -> Variant("NoContent", [ty |-> "NoContent"])
    [] id = 1 -> Variant("Unauthorized",
                         OptWrap("Unauthorized", TRUE, Str("admin need authentication")))
    [] OTHER  -> Variant("Html",
                         Wrap("RawHtml", Str("<html><body>Hello world</body></html")))

route_response_generic2(id) ==
  CASE id = 0 -> Variant("Flash", FlashError(RedirectTo("/"), FormatInvalidId(id)))
    [] id = 1 -> Variant("Unauthorized",
                         OptWrap("Unauthorized", TRUE, Str("admin need authentication")))
    [] OTHER  -> Variant("Html",
                         Wrap("RawHtml", Str("<html><body>Hello world</body></html")))

\* return types of the routes
RetConcrete == [shape |-> "RocketResponse", T |-> "-", U |-> "-"]
RetGeneric == [shape |-> "RocketResponseGeneric", T |-> "str", U |-> "-"]
RetGeneric2 == [shape |-> "RocketResponseGeneric2", T |-> "str", U |-> "Redirect"]

(* ------------------------------------------------------------------ *)
(* Values any handler can build from the public variants.              *)
(* ------------------------------------------------------------------ *)
\* types T is instantiated with (T: Serialize, and a Responder)
TArgs == {"str", "OptStr", "UserT"}
\* types U is instantiated with (a Responder)
UArgs == {"str", "Redirect"}

InnerValues(a) ==
  CASE a = "str"      -> {Str("Hello world")}
    [] a = "OptStr"   -> {OptStr(TRUE, "Hello world"), OptStr(FALSE, "")}
    [] a = "UserT"    -> {[ty |-> "UserT", ser |-> TRUE], [ty |-> "UserT", ser |-> FALSE]}
    [] a = "Redirect" -> {RedirectTo("/admin"), RedirectTo("/a b")}

DefaultInner(a) == CHOOSE x \in InnerValues(a) : TRUE

\* payloads of a field type; a file payload takes a descriptor the handler opened
Payloads(ty, free) ==
  CASE ty.k \in OptionStatusKinds ->
         {OptWrap(ty.k, TRUE, x) : x \in InnerValues(ty.a)}
           \cup {OptWrap(ty.k, FALSE, DefaultInner(ty.a))}
    [] ty.k = "Created" ->
         {[ty |-> "Created", s |-> "/new", some |-> TRUE, inner |-> x, tagged |-> t] :
            x \in InnerValues(ty.a), t \in BOOLEAN}
           \cup {[ty |-> "Created", s |-> "/new", some |-> FALSE,
                  inner |-> DefaultInner(ty.a), tagged |-> FALSE]}
    [] ty.k \in RawKinds \cup {"NotFound", "Json", "MsgPack"} ->
         {Wrap(ty.k, x) : x \in InnerValues(ty.a)}
    [] ty.k = "Flash" ->
         {FlashNew(x, k, "saved") : x \in InnerValues(ty.a), k \in {"error", "success"}}
    [] ty.k \in {"File", "TokioFile"} -> {[ty |-> ty.k, h |-> h] : h \in free}
    [] ty.k = "NamedFile" ->
         {[ty |-> "NamedFile", ext |-> e, h |-> h] : e \in {"html", "bin"}, h \in free}
    [] ty.k = "NoContent" -> {[ty |-> "NoContent"]}
    [] ty.k = "Redirect" ->
         {RedirectTo("/admin"), RedirectTo("/a b"),
          [ty |-> "Redirect", code |-> 308, valid |-> TRUE, s |-> "/"]}
    [] ty.k = "Status" -> {[ty |-> "Status", code |-> c] : c \in {100, 200, 206, 303, 404}}
    [] ty.k = "Template" ->
         {[ty |-> "Template", found |-> TRUE, s |-> "<p>hi</p>"],
          [ty |-> "Template", found |-> FALSE, s |-> ""]}
    [] ty.k \in {"str", "String", "slice", "Vec", "Value"} ->
         {[ty |-> ty.k, s |-> "Hello world"]}

(* ------------------------------------------------------------------ *)
(* State                                                               *)
(* ------------------------------------------------------------------ *)
VARIABLES
  pc,        \* per request: "idle", "constructed", "rendered"
  req,       \* per request: the route that serves it and the id in the path
  ret,       \* per request: the route's return type [shape, T, U]
  value,     \* per request: the enum value the handler returned, or NoValue
  born,      \* per request: the value as the handler built it
  response,  \* per request: what respond_to returned
  invoked,   \* per request: the variants whose renderer respond_to called
  open,      \* open file descriptors
  stale      \* whether a released descriptor was ever read

vars == <<pc, req, ret, value, born, response, invoked, open, stale>>

NoRet == [shape |-> "-", T |-> "-", U |-> "-"]
NoReq == [route |-> "-", id |-> 0]

Init ==
  /\ pc = [r \in Reqs |-> "idle"]
  /\ req = [r \in Reqs |-> NoReq]
  /\ ret = [r \in Reqs |-> NoRet]
  /\ value = [r \in Reqs |-> NoValue]
  /\ born = [r \in Reqs |-> NoValue]
  /\ response = [r \in Reqs |-> NoResponse]
  /\ invoked = [r \in Reqs |-> <<>>]
  /\ open = {}
  /\ stale = FALSE

\* the handler of route, called with id, returns v of type rt
Return(r, route, id, rt, v) ==
  /\ pc[r] = "idle"
  /\ req' = [req EXCEPT ![r] = [route |-> route, id |-> id]]
  /\ pc' = [pc EXCEPT ![r] = "constructed"]
  /\ ret' = [ret EXCEPT ![r] = rt]
  /\ value' = [value EXCEPT ![r] = v]
  /\ born' = [born EXCEPT ![r] = v]
  /\ open' = open \cup PayloadHandles(v.payload)
  /\ UNCHANGED <<response, invoked, stale>>

RouteResponse(r) == \E id \in Ids : Return(r, "route_response", id, RetConcrete, route_response(id))

RouteResponseGeneric(r) ==
  \E id \in Ids :
    Return(r, "route_response_generic", id, RetGeneric, route_response_generic(id))

RouteResponseGeneric2(r) ==
  \E id \in Ids :
    Return(r, "route_response_generic2", id, RetGeneric2, route_response_generic2(id))

\* any other handler: any variant of any shape, the payload of the declared type
Construct(r) ==
  \E shape \in Shapes, T \in TArgs, U \in UArgs :
    \E tag \in VariantNames(shape) :
      \E p \in Payloads(Inst(FieldType(shape, tag), T, U), Handles \ open) :
        /\ shape = "RocketResponse" => T = "str" /\ U = "str"
        /\ shape = "RocketResponseGeneric" => U = "str"
        /\ Return(r, "handler", 0, [shape |-> shape, T |-> T, U |-> U], Variant(tag, p))

\* a handler that opens a file and returns it in one of the file variants
FileTags == {"File", "NamedFiled", "TokioFile"}

\* ... or, when the file cannot be opened, Status::NotFound
ConstructFile(r) ==
  \E shape \in Shapes :
    LET rt == [shape |-> shape, T |-> "str", U |-> "str"] IN
    \/ \E tag \in FileTags :
         \E p \in Payloads(Inst(FieldType(shape, tag), "str", "str"), Handles \ open) :
           Return(r, "file_handler", 0, rt, Variant(tag, p))
    \/ Return(r, "file_handler", 0, rt, Variant("Status", [ty |-> "Status", code |-> 404]))

\* the framework renders the returned value, once
Render(r) ==
  /\ pc[r] = "constructed"
  /\ LET out == respond_to(ret[r].shape, value[r]) IN
       /\ response' = [response EXCEPT ![r] = out.res]
       /\ invoked' = [invoked EXCEPT ![r] = out.invoked]
       /\ open' = open \ (PayloadHandles(value[r].payload) \ ResponseHandles(out.res))
  /\ value' = [value EXCEPT ![r] = AfterRespond(value[r])]
  /\ pc' = [pc EXCEPT ![r] = "rendered"]
  /\ UNCHANGED <<req, ret, born, stale>>

\* the request ends: everything of it is dropped
Finish(r) ==
  /\ pc' = [pc EXCEPT ![r] = "idle"]
  /\ req' = [req EXCEPT ![r] = NoReq]
  /\ ret' = [ret EXCEPT ![r] = NoRet]
  /\ value' = [value EXCEPT ![r] = NoValue]
  /\ born' = [born EXCEPT ![r] = NoValue]
  /\ response' = [response EXCEPT ![r] = NoResponse]
  /\ invoked' = [invoked EXCEPT ![r] = <<>>]
  /\ open' = open \ ResponseHandles(response[r])

\* the body is written to the client; a file body is read to its end
Send(r) ==
  /\ pc[r] = "rendered"
  /\ response[r].ok
  /\ stale' = (stale \/ ~(ResponseHandles(response[r]) \subseteq open))
  /\ Finish(r)

\* writing the body fails (I/O error, client gone)
SendFail(r) ==
  /\ pc[r] = "rendered"
  /\ response[r].ok
  /\ response[r].body.kind # "empty"
  /\ UNCHANGED stale
  /\ Finish(r)

\* Err(status) goes to the framework's catcher
Catch(r) ==
  /\ pc[r] = "rendered"
  /\ ~response[r].ok
  /\ UNCHANGED stale
  /\ Finish(r)

\* one request at a time, any handler
Next ==
  \E r \in {1} :
    \/ RouteResponse(r)
    \/ RouteResponseGeneric(r)
    \/ RouteResponseGeneric2(r)
    \/ Construct(r)
    \/ Render(r)
    \/ Send(r)
    \/ SendFail(r)
    \/ Catch(r)

Spec == Init /\ [][Next]_vars

\* the steps the framework takes for a request once its handler has returned
Serve(r) == Render(r) \/ Send(r) \/ SendFail(r) \/ Catch(r)

\* requests served concurrently, the routes and the file-returning handlers;
\* the framework drives every request to its end
NextFiles ==
  \E r \in Reqs :
    \/ RouteResponse(r)
    \/ RouteResponseGeneric(r)
    \/ RouteResponseGeneric2(r)
    \/ ConstructFile(r)
    \/ Render(r)
    \/ Send(r)
    \/ SendFail(r)
    \/ Catch(r)

SpecFiles == Init /\ [][NextFiles]_vars /\ \A r \in Reqs : WF_vars(Serve(r))

(* ------------------------------------------------------------------ *)
(* Properties                                                          *)
(* ------------------------------------------------------------------ *)
Rendered(r) == pc[r] = "rendered"

\* the declared type of the variant a request's value holds
DeclaredType(r) == Inst(FieldType(ret[r].shape, born[r].tag), ret[r].T, ret[r].U)

\* C1: rendering an enum value of any shape yields exactly the response that the
\* Responder of the active variant's field yields for the payload on its own; only
\* that variant's renderer is called and the payload is of that variant's type.
C1_DispatchForwards ==
  \A r \in Reqs :
    Rendered(r) =>
      /\ response[r] = Respond(born[r].payload)
      /\ invoked[r] = <<born[r].tag>>
      /\ TypeOf(born[r].payload) = DeclaredType(r)

C1_Witness ==
  \E r \in Reqs :
    /\ Rendered(r)
    /\ ret[r].shape = "RocketResponseGeneric2"
    /\ born[r].tag = "Created"
    /\ response[r].ok
    /\ response[r].status = 201
    /\ response[r].ct = "JSON"

\* C2: route_response with an id other than 0 and 1 returns StaticStr("Hello world"),
\* which renders as 200, text/plain, body Hello world.
C2_DefaultIsHelloWorld ==
  \A r \in Reqs :
    (req[r].route = "route_response" /\ req[r].id \notin {0, 1}) =>
      /\ born[r] = Variant("StaticStr", Str("Hello world"))
      /\ Rendered(r) =>
           /\ response[r].ok
           /\ response[r].status = 200
           /\ response[r].ct = "Plain"
           /\ response[r].body = Sized("Hello world")

C2_Witness ==
  \E r \in Reqs :
    /\ Rendered(r)
    /\ req[r] = [route |-> "route_response", id |-> 2]
    /\ response[r].body.s = "Hello world"

\* C3: in each of the three shapes, whatever T and U are, a NoContent variant
\* renders as status 204 without a body.
C3_NoContentIs204 ==
  \A r \in Reqs :
    (Rendered(r) /\ born[r].tag = "NoContent") =>
      /\ response[r].ok
      /\ response[r].status = 204
      /\ response[r].body = EmptyBody

C3_Witness ==
  \E r \in Reqs :
    /\ Rendered(r)
    /\ born[r].tag = "NoContent"
    /\ ret[r] = [shape |-> "RocketResponseGeneric2", T |-> "UserT", U |-> "Redirect"]
    /\ response[r].status = 204

\* C4: route_response_generic2 with id 0 (T = &'static str, U = Redirect) returns
\* Flash(Flash::error(Redirect::to("/"), "Invalid id 0")); it renders as 303 with
\* Location / and the flash cookie carrying the message; the Flash field is typed
\* by U, not by T.
C4_FlashRedirect ==
  \A r \in Reqs :
    (req[r] = [route |-> "route_response_generic2", id |-> 0]) =>
      /\ born[r] = Variant("Flash", FlashError(RedirectTo("/"), "Invalid id 0"))
      /\ ret[r].T # ret[r].U
      /\ TypeOf(born[r].payload) = DeclaredType(r)
      /\ Rendered(r) =>
           /\ response[r].ok
           /\ response[r].status = 303
           /\ response[r].location = "/"
           /\ response[r].cookie = [name |-> "_flash", value |-> "5:errorInvalid id 0"]

C4_Witness ==
  \E r \in Reqs :
    /\ Rendered(r)
    /\ req[r] = [route |-> "route_response_generic2", id |-> 0]
    /\ response[r].cookie.name = "_flash"

\* C5: in RocketResponseGeneric<T>, Unauthorized(Some("admin need authentication"))
\* renders as 401 with the text as body; route_response_generic builds it for id 1.
C5_UnauthorizedIs401 ==
  \A r \in Reqs :
    /\ (req[r] = [route |-> "route_response_generic", id |-> 1]) =>
         born[r] = Variant("Unauthorized",
                           OptWrap("Unauthorized", TRUE, Str("admin need authentication")))
    /\ ( /\ Rendered(r)
         /\ ret[r].shape = "RocketResponseGeneric"
         /\ born[r] = Variant("Unauthorized",
                              OptWrap("Unauthorized", TRUE, Str("admin need authentication")))
       ) =>
         /\ response[r].ok
         /\ response[r].status = 401
         /\ response[r].body = Sized("admin need authentication")

C5_Witness ==
  \E r \in Reqs :
    /\ Rendered(r)
    /\ req[r] = [route |-> "route_response_generic", id |-> 1]
    /\ response[r].status = 401

\* C6: Redirect(Redirect::to("/admin")) renders as a 3xx status with the Location
\* header /admin; route_response builds it for id 1.
C6_RedirectLocation ==
  \A r \in Reqs :
    /\ (req[r] = [route |-> "route_response", id |-> 1]) =>
         born[r] = Variant("Redirect", RedirectTo("/admin"))
    /\ (Rendered(r) /\ born[r] = Variant("Redirect", RedirectTo("/admin"))) =>
         /\ response[r].ok
         /\ response[r].status >= 300 /\ response[r].status < 400
         /\ response[r].location = "/admin"

C6_Witness ==
  \E r \in Reqs :
    /\ Rendered(r)
    /\ req[r] = [route |-> "route_response", id |-> 1]
    /\ response[r].location = "/admin"

\* the content type each variant's response kind is documented to produce
InnerContentType(x) ==
  CASE x.ty \in {"str", "OptStr"} -> "Plain"
    [] x.ty = "UserT"             -> "JSON"
    [] OTHER                      -> Absent

VariantContentType(tag, p) ==
  CASE tag = "Css"                               -> "CSS"
    [] tag \in {"Html", "Template"}              -> "HTML"
    [] tag = "JavaScript"                        -> "JavaScript"
    [] tag \in {"Json", "SerdeJson", "SerdeValue"} -> "JSON"
    [] tag \in {"MsgPack", "SerdeMsgPack"}       -> "MsgPack"
    [] tag \in {"Plain", "StaticStr", "String"}  -> "Plain"
    [] tag = "Xml"                               -> "XML"
    [] tag \in {"StaticSlice", "Vec"}            -> "Binary"
    [] tag = "NamedFiled"                        -> FromExtension(p.ext)
    [] tag \in {"Accepted", "BadRequest", "Conflict", "Created", "Forbidden",
                "Unauthorized"} ->
         IF p.some THEN InnerContentType(p.inner) ELSE Absent
    [] tag \in {"NotFound", "Flash"}             -> InnerContentType(p.inner)
    [] OTHER                                     -> Absent

\* variants whose wrapper sets the content type itself
ContentTags ==
  {"Css", "Html", "JavaScript", "Json", "MsgPack", "Plain", "Xml", "SerdeJson",
   "SerdeMsgPack"}

\* the payload as the fully concrete shape holds it: the wrapped T or U is a &'static str
Concretize(p) ==
  IF p.ty \in WrapperKinds THEN [p EXCEPT !.inner = Str("Hello world")] ELSE p

\* the content type the same variant has in the fully concrete shape
ConcreteContentType(r) == Respond(Concretize(born[r].payload)).ct

\* C7 as stated: for every variant the content type of the rendered response is the
\* same in all three shapes, Flash<&'static str> / Flash<T> / Flash<U> included.
C7_SameInAllShapes ==
  \A r \in Reqs :
    (Rendered(r) /\ response[r].ok) => response[r].ct = ConcreteContentType(r)

\* C7 amended: the content type of the rendered response is the one documented for
\* the variant's response kind (for the status wrappers and Flash: that of the wrapped
\* payload's renderer); it is the same as in the fully concrete shape for the variants
\* whose wrapper sets it and whenever the variant's field type is the same.
C7_ContentTypeOfKind ==
  \A r \in Reqs :
    (Rendered(r) /\ response[r].ok) =>
      /\ response[r].ct = VariantContentType(born[r].tag, born[r].payload)
      /\ ( \/ born[r].tag \in ContentTags
           \/ DeclaredType(r) = Inst(FieldType("RocketResponse", born[r].tag), "str", "str")
         ) => response[r].ct = ConcreteContentType(r)

C7_Witness ==
  \E r \in Reqs :
    /\ Rendered(r)
    /\ response[r].ok
    /\ ret[r].shape = "RocketResponseGeneric2"
    /\ born[r].tag = "Flash"
    /\ ret[r].U = "Redirect"
    /\ response[r].ct = Absent
    /\ ConcreteContentType(r) = "Plain"

\* C8: when the renderer of the active variant fails, rendering the enum value fails
\* with that same failure; a renderer that succeeds is not turned into a failure;
\* the renderer runs once and no other variant's renderer runs.
C8_FailurePropagates ==
  \A r \in Reqs :
    Rendered(r) =>
      LET own == Respond(born[r].payload) IN
      /\ ~own.ok => (~response[r].ok /\ response[r].status = own.status)
      /\ own.ok => response[r].ok
      /\ Len(invoked[r]) = 1
      /\ invoked[r][1] = born[r].tag

C8_Witness ==
  \E r \in Reqs :
    /\ Rendered(r)
    /\ born[r].tag = "SerdeJson"
    /\ ~response[r].ok
    /\ response[r].status = 500

\* who holds descriptor h: the value a handler returned, or a response body
Holders(h) ==
  {<<r, "value">> : r \in {x \in Reqs : /\ value[x] # NoValue
                                        /\ h \in PayloadHandles(value[x].payload)}}
    \cup {<<r, "response">> : r \in {x \in Reqs : h \in ResponseHandles(response[x])}}

C9_Scoped ==
  /\ ~stale
  /\ \A h \in Handles :
       /\ h \in open => Cardinality(Holders(h)) = 1
       /\ h \notin open => Holders(h) = {}

\* C9: a file descriptor held by a File, NamedFiled or TokioFile value has one
\* holder at a time (the value, then the response body that streams it), is not read
\* after its release, and is released on every execution, whether the body is sent
\* or sending fails.
C9_FileHandleReleased ==
  /\ []C9_Scoped
  /\ \A h \in Handles : (h \in open) ~> (h \notin open)

C9_Witness ==
  \E r1, r2 \in Reqs :
    /\ r1 # r2
    /\ Rendered(r1)
    /\ response[r1].ok
    /\ response[r1].body.kind = "file"
    /\ born[r1].tag = "TokioFile"
    /\ pc[r2] = "constructed"
    /\ value[r2].tag = "NamedFiled"
    /\ open = {response[r1].body.h, value[r2].payload.h}
    /\ Cardinality(open) = 2

\* C10: from construction until it is rendered a value keeps the tag and payload it
\* was built with; its payload is of the declared type of the tagged variant and of
\* no other variant; after rendering nothing of it is left.
C10_OneVariant ==
  \A r \in Reqs :
    /\ (value[r] # NoValue) <=> (pc[r] = "constructed")
    /\ (value[r] # NoValue) =>
         /\ value[r] = born[r]
         /\ value[r].tag \in VariantNames(ret[r].shape)
         /\ {t \in VariantNames(ret[r].shape) :
               Inst(FieldType(ret[r].shape, t), ret[r].T, ret[r].U)
                 = TypeOf(value[r].payload)} = {value[r].tag}

C10_Witness ==
  \E r \in Reqs :
    /\ pc[r] = "constructed"
    /\ ret[r] = [shape |-> "RocketResponseGeneric2", T |-> "OptStr", U |-> "Redirect"]
    /\ value[r].tag = "Flash"
    /\ value[r].payload.inner.ty = "Redirect"

====
